---- MODULE Spec2Model ----
(***************************************************************************)
(* Bearer-token verification of the phase2 backend (src/auth.py):          *)
(* the module-level JWKS cache, get_jwks, clear_jwks_cache and             *)
(* verify_token with its two signature paths (EdDSA from the cached key    *)
(* set, RS256/RS384/RS512 through PyJWKClient against the remote          *)
(* endpoint).                                                              *)
(*                                                                         *)
(* Cryptography is modelled symbolically: a key material is a name, a      *)
(* token records the key material that produced its signature, and a       *)
(* signature check against material m succeeds exactly when the token was  *)
(* signed by m.  Tokens carry no nbf/iat/aud claims.  The library calls    *)
(* (jwt.get_unverified_header, jwt.decode, PyJWKClient) are modelled by    *)
(* the exception class they raise, which is what the except clauses of     *)
(* verify_token dispatch on.                                               *)
(*                                                                         *)
(* Beside it: base64url_decode of src/auth.py on bounded arguments         *)
(* (SpecB64), the task endpoints of the phase2 backend, src/routes/tasks.py *)
(* (SpecWeb), and the console app of phase1, src/storage.py and            *)
(* src/operations.py (SpecConsole).  Each specification moves its own      *)
(* variables and leaves the others as they are.                            *)
(***************************************************************************)
EXTENDS Integers, Sequences, FiniteSets, TLC

(* ----------------------------- bounds -------------------------------- *)
\* number of request slots (verify_token coroutines that exist at once)
NumCalls == 2

\* clear_jwks_cache calls in a row that the history tells apart
MaxClears == 2

Calls == 1..NumCalls

(* ------------------------- values and inputs ------------------------- *)
\* Python None / an absent JSON member
None == "<none>"

\* key materials: two Ed25519 public keys, one RSA public key
EdMats  == {"edA", "edB"}
RsaMats == {"rsaA"}
KeyMats == EdMats \cup RsaMats

\* the key the token was really signed with; "forged" is a signature made
\* with a key that appears in no key set
Signers == KeyMats \cup {"forged"}

RsaAlgs == {"RS256", "RS384", "RS512"}

\* a JWK record: kid (None when absent), kty, crv (None when absent), and
\* the public key material mat (x for OKP, n/e for RSA; None when absent).
\* Every record is a non-empty JSON object (kty is mandatory in a JWK).
OKP(kid, m) == [kid |-> kid, kty |-> "OKP", crv |-> "Ed25519", mat |-> m]
RSA(kid, m) == [kid |-> kid, kty |-> "RSA", crv |-> None, mat |-> m]

\* key_data before the loop finds a record
NoKey == [kid |-> None, kty |-> None, crv |-> None, mat |-> None]

\* a key-set document {"keys": [...]}, and the values that stand where a
\* document may be missing
Doc(keys) == [st |-> "doc", keys |-> keys]
NoDoc     == [st |-> "none", keys |-> << >>]      \* _jwks_cache is None
Down      == [st |-> "down", keys |-> << >>]      \* unreachable, non-2xx, non-JSON body
BadShape  == [st |-> "notdict", keys |-> << >>]   \* a JSON body that is no object
Pending   == [st |-> "pending", keys |-> << >>]   \* request sent, no answer yet
TimedOut  == [st |-> "timeout", keys |-> << >>]   \* timeout=10.0 expired

\* key-set documents the endpoint may serve
DocEdRsa   == Doc(<< OKP("k1", "edA"), RSA("k2", "rsaA") >>)
DocRsaEd   == Doc(<< RSA("k1", "rsaA"), OKP("k2", "edB") >>)
DocDupKid  == Doc(<< OKP(None, "edB"), OKP("k1", "edA"), OKP("k1", "edB") >>)
DocNoX     == Doc(<< OKP("k1", None) >>)
DocEmpty   == Doc(<< >>)
Docs == {DocEdRsa, DocRsaEd, DocDupKid, DocNoX, DocEmpty}

\* everything the endpoint may answer
Answers == Docs \cup {BadShape, Down}

\* a bearer token.  wf: "ok", "bad_header" (not three segments, bad base64,
\* non-JSON header) or "bad_payload" (payload segment is not a JSON object);
\* alg, kid: header members (None when absent); signer: the signing key;
\* exp: None, "future" or "past"; sub, email, name: payload claims.
Tok(wf, alg, kid, signer, exp, sub, email, name) ==
    [wf |-> wf, alg |-> alg, kid |-> kid, signer |-> signer, exp |-> exp,
     sub |-> sub, email |-> email, name |-> name]

HeaderAlgs == {None, "EdDSA", "HS256"} \cup RsaAlgs
HeaderKids == {None, "", "k1", "k2"}

\* every header shape, over a fixed complete payload
HeaderTokens ==
    { Tok("ok", a, k, s, "future", "u1", "u1@x.com", None) :
        a \in HeaderAlgs, k \in HeaderKids, s \in Signers }

\* every payload shape, over the two headers and signers that can verify
PayloadTokens ==
    { Tok("ok", h[1], k, h[2], e, id[1], id[2], n) :
        h \in {<<"EdDSA", "edA">>, <<"RS256", "rsaA">>}, k \in {None, "k1"},
        e \in {None, "future", "past"},
        id \in {<<"u1", "u1@x.com">>, <<None, "u1@x.com">>, <<"", "u1@x.com">>,
                <<"u1", None>>, <<"u1", "">>},
        n \in {None, "Ann"} }

\* tokens whose payload segment is not a JSON object
BadPayloadTokens ==
    { Tok("bad_payload", h[1], "k1", h[2], None, None, None, None) :
        h \in {<<"EdDSA", "edA">>, <<"EdDSA", "forged">>,
                <<"RS256", "rsaA">>, <<"RS256", "forged">>} }

BadHeaderToken == Tok("bad_header", None, None, "forged", None, None, None, None)

Tokens == HeaderTokens \cup PayloadTokens \cup BadPayloadTokens \cup {BadHeaderToken}

(* --------------------------- results --------------------------------- *)
\* the AuthUser returned by verify_token
Identity(id, email, name) ==
    [kind |-> "Identity", status |-> 200, id |-> id, email |-> email, name |-> name]

\* an HTTPException leaving verify_token; kind names its detail text
Failure(kind, status) ==
    [kind |-> kind, status |-> status, id |-> None, email |-> None, name |-> None]

NoResult == Failure(None, 0)

\* an exception in flight: HTTPException carries its kind and status
Exc(cls, kind, status) == [cls |-> cls, kind |-> kind, status |-> status]
HTTPExc(kind, status) == Exc("HTTPException", kind, status)
LibExc(cls) == Exc(cls, None, 0)
NoExc == Exc(None, None, 0)

\* the except clauses with jwt.InvalidTokenError tried first: it is the base
\* class of ExpiredSignatureError, and an expired token then gets the
\* answer of a token whose signature does not verify
Handle_InvalidTokenFirst(e) ==
    IF e.cls \in {"ExpiredSignatureError", "InvalidSignatureError"}
    THEN Failure("SignatureInvalid", 401)
    ELSE IF e.cls = "DecodeError" THEN Failure("MalformedToken", 401)
    ELSE IF e.cls = "InvalidAlgorithmError" THEN Failure("AlgorithmNotAllowed", 401)
    ELSE IF e.cls = "HTTPException" THEN Failure(e.kind, e.status)
    ELSE Failure("AuthenticationError", 401)

\* the except clauses of verify_token, in source order
Handle(e) ==
    IF e.cls = "ExpiredSignatureError" THEN Failure("TokenExpired", 401)
    ELSE IF e.cls \in {"DecodeError", "InvalidSignatureError", "InvalidAlgorithmError"}
    THEN \* except jwt.InvalidTokenError: "Token validation failed: <message>"
         Failure(CASE e.cls = "DecodeError" -> "MalformedToken"
                   [] e.cls = "InvalidSignatureError" -> "SignatureInvalid"
                   [] OTHER -> "AlgorithmNotAllowed", 401)
    ELSE IF e.cls = "HTTPException" THEN Failure(e.kind, e.status)
    ELSE Failure("AuthenticationError", 401)

(* --------------------------- key resolver ----------------------------- *)
\* Python truthiness of an optional string
Truthy(s) == s # None /\ s # ""

\* the loop without its break statements: the last matching record wins
ResolveIndex_NoBreak(doc, kid) ==
    LET hit(i) == IF Truthy(kid) THEN doc.keys[i].kid = kid ELSE TRUE
        idx == { i \in 1..Len(doc.keys) : hit(i) }
    IN IF idx = {} THEN 0 ELSE CHOOSE i \in idx : \A j \in idx : i >= j

\* the loop testing kid is not None: an empty kid is looked up like any other
ResolveIndex_KidNotNone(doc, kid) ==
    LET hit(i) == IF kid # None THEN doc.keys[i].kid = kid ELSE TRUE
        idx == { i \in 1..Len(doc.keys) : hit(i) }
    IN IF idx = {} THEN 0 ELSE CHOOSE i \in idx : \A j \in idx : i <= j

\* index of the record the loop of verify_token stops at, 0 when it runs out
ResolveIndex(doc, kid) ==
    LET hit(i) == IF Truthy(kid) THEN doc.keys[i].kid = kid ELSE TRUE
        idx == { i \in 1..Len(doc.keys) : hit(i) }
    IN IF idx = {} THEN 0 ELSE CHOOSE i \in idx : \A j \in idx : i <= j

\* key_data after the loop: the record, or NoKey
Resolve(doc, kid) ==
    IF ResolveIndex(doc, kid) = 0 THEN NoKey ELSE doc.keys[ResolveIndex(doc, kid)]

(* ------------------------- signature verifier ------------------------- *)
\* jwt.decode called with options={"verify_signature": False}
JwtDecode_NoSignatureCheck(tok, mat, algs) ==
    IF tok.alg = None \/ tok.alg \notin algs THEN "InvalidAlgorithmError"
    ELSE IF (tok.alg = "EdDSA") # (mat \in EdMats) THEN "TypeError"
    ELSE IF tok.wf = "bad_payload" THEN "DecodeError"
    ELSE IF tok.exp = "past" THEN "ExpiredSignatureError"
    ELSE None

\* jwt.decode(token, key, algorithms=algs, options={"verify_aud": False}) with
\* a key object of material mat: the exception class raised, or None.
\* PyJWT checks, in order: the header alg against algs, the key type against
\* the algorithm, the signature, the payload JSON, then exp.
JwtDecode(tok, mat, algs) ==
    IF tok.alg = None \/ tok.alg \notin algs THEN "InvalidAlgorithmError"
    ELSE IF (tok.alg = "EdDSA") # (mat \in EdMats) THEN "TypeError"
    ELSE IF tok.signer # mat THEN "InvalidSignatureError"
    ELSE IF tok.wf = "bad_payload" THEN "DecodeError"
    ELSE IF tok.exp = "past" THEN "ExpiredSignatureError"
    ELSE None

\* one signature check, as recorded in the history of a call
Check(rec, src, ok) == [key |-> rec, src |-> src, ok |-> ok]

\* the EdDSA branch reading the payload with jwt.decode(token,
\* options={"verify_signature": False}) instead of checking it against x
EdDSABranch_Unverified(tok, key_data) ==
    [exc |-> IF tok.wf = "bad_payload" THEN LibExc("DecodeError") ELSE NoExc,
     checks |-> << >>]

\* the EdDSA branch: [exc, checks]
EdDSABranch(tok, key_data) ==
    IF key_data.mat = None
    THEN [exc |-> LibExc("KeyError"), checks |-> << >>]
    ELSE LET r == JwtDecode(tok, key_data.mat, {"EdDSA"})
         IN [exc |-> IF r = None THEN NoExc ELSE LibExc(r),
             checks |-> IF r \in {"InvalidAlgorithmError", "TypeError"} THEN << >>
                        ELSE << Check(key_data, "cache", r # "InvalidSignatureError") >>]

\* PyJWKClient.get_signing_keys on one answer of the endpoint: the exception
\* class raised, or None
SigningKeysError(rdoc) ==
    IF rdoc \in {Down, TimedOut} THEN "PyJWKClientConnectionError"
    ELSE IF rdoc = BadShape THEN "PyJWKClientError"
    ELSE IF Len(rdoc.keys) = 0 THEN "PyJWKSetError"
    ELSE IF \E i \in 1..Len(rdoc.keys) : rdoc.keys[i].mat = None THEN "PyJWKSetError"
    ELSE IF \A i \in 1..Len(rdoc.keys) : ~Truthy(rdoc.keys[i].kid) THEN "PyJWKClientError"
    ELSE None

\* PyJWKClient.match_kid: index of the first signing key with that key id
MatchKid(rdoc, kid) ==
    LET idx == { i \in 1..Len(rdoc.keys) :
                    Truthy(rdoc.keys[i].kid) /\ rdoc.keys[i].kid = kid }
    IN IF idx = {} THEN 0 ELSE CHOOSE i \in idx : \A j \in idx : i <= j

\* jwt.decode of the RSA branch with the signing key found: [exc, checks]
RsaDecode(tok, alg, key) ==
    LET r == JwtDecode(tok, key.mat, {alg})
    IN [exc |-> IF r = None THEN NoExc ELSE LibExc(r),
        checks |-> IF r \in {"InvalidAlgorithmError", "TypeError"} THEN << >>
                   ELSE << Check(key, "remote", r # "InvalidSignatureError") >>]

(* ---------------------------- claims mapper --------------------------- *)
\* the claims mapper requiring the subject only
ClaimsExc_SubjectOnly(tok) ==
    IF ~Truthy(tok.sub) THEN HTTPExc("InvalidPayload", 401) ELSE NoExc

\* lines 135-149: the identity, or the InvalidPayload exception
ClaimsExc(tok) ==
    IF ~Truthy(tok.sub) \/ ~Truthy(tok.email)
    THEN HTTPExc("InvalidPayload", 401) ELSE NoExc

ClaimsIdentity(tok) == Identity(tok.sub, tok.email, tok.name)

(* ------------------------ verification facade ------------------------- *)
\* line 81: the algorithm the dispatch uses
DeclaredAlg(tok) == IF tok.alg = None THEN "EdDSA" ELSE tok.alg

\* what a synchronous stretch of verify_token leaves behind: where the call
\* stands next, key_data, the steps entered, the exception raised (NoExc when
\* the stretch ran through), the signature checks made, the answers the RSA
\* branch got from the endpoint
Stretch(next, key_data, steps, exc, checks, rdocs) ==
    [next |-> next, key_data |-> key_data, steps |-> steps, exc |-> exc,
     checks |-> checks, rdocs |-> rdocs]

\* lines 135-149 appended to a stretch whose signature check passed
WithClaims(tok, st) ==
    IF st.exc # NoExc \/ st.next # "done" THEN st
    ELSE [st EXCEPT !.steps = Append(st.steps, "extract"), !.exc = ClaimsExc(tok)]

\* lines 117-127 from the answer rdoc of the endpoint on: refresh says
\* whether this is the second request of PyJWKClient.get_signing_key
RsaBranch(tok, key_data, rdoc, refresh) ==
    LET alg  == DeclaredAlg(tok)
        err  == SigningKeysError(rdoc)
        i    == MatchKid(rdoc, tok.kid)
        base == Stretch("done", key_data, <<"resolve", "verify">>, NoExc, << >>, <<rdoc>>)
    IN IF err # None THEN [base EXCEPT !.exc = LibExc(err)]
       ELSE IF i = 0
       THEN IF refresh THEN [base EXCEPT !.exc = LibExc("PyJWKClientError")]
            ELSE [base EXCEPT !.next = "rsa_refresh"]
       ELSE LET d == RsaDecode(tok, alg, rdoc.keys[i])
            IN [base EXCEPT !.exc = d.exc, !.checks = d.checks]

\* lines 87-133 with the key set doc, the endpoint answering rnow
Dispatch(tok, doc, rnow) ==
    LET alg      == DeclaredAlg(tok)
        key_data == Resolve(doc, tok.kid)
    IN IF doc = BadShape
       THEN \* jwks.get fails on a body that is no object
            Stretch("done", NoKey, <<"resolve">>, LibExc("AttributeError"), << >>, << >>)
       ELSE IF key_data = NoKey
       THEN Stretch("done", NoKey, <<"resolve">>, HTTPExc("KeyNotFound", 401), << >>, << >>)
       ELSE IF alg = "EdDSA" /\ key_data.kty = "OKP" /\ key_data.crv = "Ed25519"
       THEN LET b == EdDSABranch(tok, key_data)
            IN Stretch("done", key_data, <<"resolve", "verify">>, b.exc, b.checks, << >>)
       ELSE IF alg \in RsaAlgs
       THEN IF tok.wf = "bad_payload"
            THEN \* get_signing_key_from_jwt decodes the token first
                 Stretch("done", key_data, <<"resolve", "verify">>,
                         LibExc("DecodeError"), << >>, << >>)
            ELSE RsaBranch(tok, key_data, rnow, FALSE)
       ELSE Stretch("done", key_data, <<"resolve", "verify">>,
                    HTTPExc("UnsupportedAlgorithm", 401), << >>, << >>)

\* lines 87-149
AfterJwks(tok, doc, rnow) == WithClaims(tok, Dispatch(tok, doc, rnow))

\* what verify_token returns or raises at the end of a finished stretch
Outcome(tok, exc) == IF exc # NoExc THEN Handle(exc) ELSE ClaimsIdentity(tok)

(* --------------------------- base64url_decode -------------------------- *)
\* bounds: the longest argument drawn from B64Chars
MaxB64Len == 4

\* a str is the sequence of its characters, a bytes value the sequence of
\* its byte values
Chars(s) == { s[i] : i \in 1..Len(s) }

\* the URL-safe base64 alphabet in the order of its values 0..63
UrlSafeAlphabet ==
    << "A", "B", "C", "D", "E", "F", "G", "H", "I", "J", "K", "L", "M",
       "N", "O", "P", "Q", "R", "S", "T", "U", "V", "W", "X", "Y", "Z",
       "a", "b", "c", "d", "e", "f", "g", "h", "i", "j", "k", "l", "m",
       "n", "o", "p", "q", "r", "s", "t", "u", "v", "w", "x", "y", "z",
       "0", "1", "2", "3", "4", "5", "6", "7", "8", "9", "-", "_" >>

\* the standard alphabet, which ends with + and /
StdAlphabet == [UrlSafeAlphabet EXCEPT ![63] = "+", ![64] = "/"]

\* the 6-bit value of a character in an alphabet, -1 for any other character
Sextet(alphabet, ch) ==
    IF \E i \in 1..64 : alphabet[i] = ch
    THEN (CHOOSE i \in 1..64 : alphabet[i] = ch) - 1
    ELSE -1

\* "=" * n
Pads(n) == [i \in 1..n |-> "="]

\* the decoder was handed something that is no base64
B64Error == << -1 >>

\* the decoding loop of base64.b64decode without validation: characters out
\* of the alphabet are skipped, every second, third and fourth character of
\* a quad completes a byte, padding that completes a quad ends the data, and
\* data that stop inside a quad are an error
RECURSIVE A2bBase64(_, _, _, _, _, _, _)
A2bBase64(alphabet, data, i, quad_pos, leftchar, pads, out) ==
    IF i > Len(data)
    THEN IF quad_pos # 0 THEN B64Error ELSE out
    ELSE IF data[i] = "="
    THEN IF quad_pos >= 2 /\ quad_pos + pads + 1 >= 4
         THEN out
         ELSE A2bBase64(alphabet, data, i + 1, quad_pos, leftchar,
                        IF quad_pos >= 2 THEN pads + 1 ELSE pads, out)
    ELSE LET this_ch == Sextet(alphabet, data[i])
         IN IF this_ch = -1
            THEN A2bBase64(alphabet, data, i + 1, quad_pos, leftchar, pads, out)
            ELSE CASE quad_pos = 0 ->
                        A2bBase64(alphabet, data, i + 1, 1, this_ch, 0, out)
                   [] quad_pos = 1 ->
                        A2bBase64(alphabet, data, i + 1, 2, this_ch % 16, 0,
                                  Append(out, leftchar * 4 + this_ch \div 16))
                   [] quad_pos = 2 ->
                        A2bBase64(alphabet, data, i + 1, 3, this_ch % 4, 0,
                                  Append(out, leftchar * 16 + this_ch \div 4))
                   [] quad_pos = 3 ->
                        A2bBase64(alphabet, data, i + 1, 0, 0, 0,
                                  Append(out, leftchar * 64 + this_ch))

\* base64.urlsafe_b64decode
urlsafe_b64decode(data) == A2bBase64(UrlSafeAlphabet, data, 1, 0, 0, 0, << >>)

\* the padding base64url_decode computes, and the argument with it
Padding(data) == 4 - (Len(data) % 4)
Padded(data) == IF Padding(data) # 4 THEN data \o Pads(Padding(data)) ELSE data

\* base64url_decode with the decoder of the standard alphabet
base64url_decode_Standard(data) ==
    A2bBase64(StdAlphabet, Padded(data), 1, 0, 0, 0, << >>)

\* base64url_decode
base64url_decode(data) == urlsafe_b64decode(Padded(data))

\* no call of base64url_decode was made
NoDecode == [pc |-> "idle", data |-> << >>, padded |-> << >>, out |-> << >>]

(* ------------------------- task endpoints (phase 2) -------------------- *)
\* bounds: the largest id the tasks table hands out
MaxTaskId == 2

Users == {"u1", "u2"}
TaskIds == 1..MaxTaskId

\* a field of TaskUpdate that the request body does not carry
Unset == "<unset>"

\* TaskCreate and TaskUpdate as the endpoint receives them, validated: a
\* task is created with title "a" and no description; an update carries no
\* title, the title "b" or null, and no description
TaskCreates == [title : {"a"}, description : {None}]
TaskUpdates == [title : {"b", None, Unset}, description : {Unset}]

\* Task(user_id, title, description) once the table gave it the id: completed
\* False, updated_at the time of creation
NewRow(id, user_id, task_in) ==
    [id |-> id, user_id |-> user_id, title |-> task_in.title,
     description |-> task_in.description, completed |-> FALSE,
     updated_at |-> "created_at"]

\* select(Task).where(Task.user_id == user_id)
SelectUser(rows, user_id) == { t \in rows : t.user_id = user_id }

\* select(Task).where(Task.id == task_id): the row whoever owns it
SelectTask_ByIdOnly(rows, task_id, user_id) == { t \in rows : t.id = task_id }

\* select(Task).where(Task.id == task_id, Task.user_id == user_id)
SelectTask(rows, task_id, user_id) ==
    { t \in rows : t.id = task_id /\ t.user_id = user_id }

\* the ids the table may give to the next row: above every id in use
FreshIds(rows) == { i \in TaskIds : \A t \in rows : t.id < i }

\* the fields of task_in that were set, put on the row
SetFields(t, task_in) ==
    [t EXCEPT !.title = IF task_in.title = Unset THEN @ ELSE task_in.title,
              !.description =
                  IF task_in.description = Unset THEN @ ELSE task_in.description]

\* what a request was answered: looked says whether a select ran, data are
\* the tasks of the answer
Reply(op, user, user_id, task_id, st, looked, data) ==
    [op |-> op, user |-> user, user_id |-> user_id, task_id |-> task_id,
     status |-> st, looked |-> looked, data |-> data]

NoReply == Reply(None, None, None, 0, 0, FALSE, {})

\* verify_user_access raising 403
Forbidden(op, user, user_id, task_id) ==
    Reply(op, user, user_id, task_id, 403, FALSE, {})

\* HTTPException 404 "Task not found"
NotFound(op, user, user_id, task_id) ==
    Reply(op, user, user_id, task_id, 404, TRUE, {})

(* ---------------------------- console app (phase 1) -------------------- *)
\* bounds: the tasks added in one run of the console app
MaxAdds == 3

\* the description limit of add_task and update_task
MaxDescription == 500

\* a description is pre spaces, len letters and post spaces
Description(pre, len, post) == [pre |-> pre, len |-> len, post |-> post]

\* len(description), description.strip()
DescLen(d) == d.pre + d.len + d.post
Strip(d) == IF d.len = 0 THEN Description(0, 0, 0) ELSE Description(0, d.len, 0)

\* the exception add_task and update_task raise for a description, or None
DescriptionError(description) ==
    IF DescLen(Strip(description)) = 0 THEN "ValidationError"
    ELSE IF DescLen(Strip(description)) > MaxDescription THEN "ValidationError"
    ELSE None

\* Task(description, completed) with its id
Task(id, description, completed) ==
    [id |-> id, description |-> description, completed |-> completed]

\* TaskStorage(): _tasks maps ids to tasks
NewStorage == [tasks |-> << >>, next_id |-> 1]

StoredIds(st) == DOMAIN st.tasks

\* TaskStorage.add with an id counter that fills the lowest gap
StorageAdd_LowestFree(st, task) ==
    LET id == CHOOSE i \in 1..(st.next_id) :
                  i \notin StoredIds(st) /\ \A j \in 1..(i - 1) : j \in StoredIds(st)
    IN [tasks |-> [k \in StoredIds(st) \cup {id} |->
                      IF k = id THEN [task EXCEPT !.id = id] ELSE st.tasks[k]],
        next_id |-> st.next_id + 1]

\* TaskStorage.add: the storage after it; the task got the id st.next_id
StorageAdd(st, task) ==
    [tasks |-> [k \in StoredIds(st) \cup {st.next_id} |->
                   IF k = st.next_id THEN [task EXCEPT !.id = st.next_id]
                   ELSE st.tasks[k]],
     next_id |-> st.next_id + 1]

\* TaskStorage.get: the task is found
StorageHas(st, task_id) == task_id \in StoredIds(st)

\* TaskStorage.update: the storage after it
StorageUpdate(st, task_id, task) ==
    IF task_id \notin StoredIds(st)
    THEN st
    ELSE [st EXCEPT !.tasks[task_id] = [task EXCEPT !.id = task_id]]

\* TaskStorage.delete: the storage after it
StorageDelete(st, task_id) ==
    IF task_id \in StoredIds(st)
    THEN [st EXCEPT !.tasks = [k \in StoredIds(st) \ {task_id} |-> st.tasks[k]]]
    ELSE st

\* sorted(keys)
RECURSIVE Sorted(_)
Sorted(keys) ==
    IF keys = {} THEN << >>
    ELSE LET m == CHOOSE k \in keys : \A j \in keys : k <= j
         IN << m >> \o Sorted(keys \ {m})

\* TaskStorage.get_all
StorageGetAll(st) ==
    LET keys == Sorted(StoredIds(st))
    IN [i \in 1..Len(keys) |-> st.tasks[keys[i]]]

\* what an operation of the console app did: its arguments, the exception
\* it raised or None, the id it assigned or 0, its listing
Ran(op, task_id, description, raised, id, listing) ==
    [op |-> op, task_id |-> task_id, description |-> description,
     raised |-> raised, id |-> id, listing |-> listing]

NoDescription == Description(0, 0, 0)
NoRan == Ran(None, 0, NoDescription, None, 0, << >>)

(* ------------------------------- state -------------------------------- *)
VARIABLES
    cache,    \* _jwks_cache: a key-set document or NoDoc
    remote,   \* what the key-set endpoint serves now: a document or Down
    call,     \* per request slot: the verify_token coroutine and its history
    hist,     \* history of the process, kept for the statements below
    b64,      \* a call of base64url_decode: its argument, locals and result
    db,       \* the rows of the tasks table
    reply,    \* what the task endpoint called last answered
    storage,  \* the TaskStorage of the console app
    ran,      \* the operation of the console app that ran last
    issued    \* the ids TaskStorage.add assigned, in call order

vars == << cache, remote, call, hist, b64, db, reply, storage, ran, issued >>

\* the state of the token verifier, and the state outside it
auth == << cache, remote, call, hist >>
web == << db, reply >>
console == << storage, ran, issued >>
aside == << b64, web, console >>

\* clears: the clear_jwks_cache calls made in a row, while no verify_token
\* call was in flight, since a call was last entered; failed: the fetch of
\* get_jwks that completed last failed, and no verify_token call was entered
\* since; last: the document of the fetch of get_jwks that succeeded last
\* since the last clear_jwks_cache; pclears, pfailed: clears and failed as
\* the verify_token call entered last found them, until a call returns
\* fence: "cleared" while a fetch of get_jwks is in flight that was in
\* flight when clear_jwks_cache was called last, and no verify_token call was
\* entered since; "stale" once such a fetch stored its document, until a
\* coroutine goes on or a call is entered or returns
NoHist == [clears |-> 0, failed |-> FALSE, last |-> NoDoc,
           pclears |-> 0, pfailed |-> FALSE, fence |-> "none"]

NoToken == Tok(None, None, None, None, None, None, None, None)

\* pc: "idle", "fetching" (awaiting client.get), "closing" (awaiting the exit
\* of the async with block), "rsa_refresh" (inside PyJWKClient, between its
\* two requests), "done"; resp: the response of the request in flight;
\* jwks, key_data: the locals; result: what the call returned or raised;
\* steps, raised, checks, nfetch, rdocs: history of the call
IdleCall ==
    [pc |-> "idle", token |-> NoToken, resp |-> NoDoc, jwks |-> NoDoc,
     key_data |-> NoKey, result |-> NoResult, steps |-> << >>, raised |-> NoExc,
     checks |-> << >>, nfetch |-> 0, rdocs |-> << >>]

Init ==
    /\ cache = NoDoc
    /\ remote \in Answers
    /\ call = [c \in Calls |-> IdleCall]
    /\ hist = NoHist
    /\ b64 = NoDecode
    /\ db = {}
    /\ reply = NoReply
    /\ storage = NewStorage
    /\ ran = NoRan
    /\ issued = << >>

\* a blocking PyJWKClient request stalls the event loop of the process
LoopFree == \A d \in Calls : call[d].pc # "rsa_refresh"

AllIdle == \A d \in Calls : call[d].pc = "idle"

\* a result passes to the caller in the synchronous stretch that produced it
Settled == \A d \in Calls : call[d].pc # "done"

\* what a request of PyJWKClient can get while the endpoint serves rem: its
\* answer, or the expiry of the client's own timeout
RsaAnswers(rem) == {rem, TimedOut}

\* the call record after the stretch st, run by a call in state r
Advance(r, st) ==
    [r EXCEPT !.pc = st.next,
              !.key_data = st.key_data,
              !.steps = r.steps \o st.steps,
              !.raised = st.exc,
              !.checks = r.checks \o st.checks,
              !.rdocs = r.rdocs \o st.rdocs,
              !.nfetch = r.nfetch + Len(st.rdocs),
              !.result = IF st.next = "done" THEN Outcome(r.token, st.exc) ELSE NoResult]

(* ------------------------------ actions ------------------------------- *)
\* verify_token with a get_jwks that fetches whether the cache is filled or not
StartCall_AlwaysFetch(c, tok) ==
    /\ LoopFree
    /\ call[c].pc = "idle"
    /\ \A d \in Calls : d < c => call[d].pc # "idle"
    /\ LET r0 == [IdleCall EXCEPT !.token = tok, !.steps = <<"parse">>]
       IN IF tok.wf = "bad_header"
          THEN call' = [call EXCEPT ![c] =
                   [r0 EXCEPT !.pc = "done", !.raised = LibExc("DecodeError"),
                              !.result = Handle(LibExc("DecodeError"))]]
          ELSE call' = [call EXCEPT ![c] =
                   [r0 EXCEPT !.pc = "fetching", !.steps = <<"parse", "fetch">>,
                              !.resp = Pending, !.nfetch = 1]]
    /\ hist' = [hist EXCEPT !.clears = 0, !.failed = FALSE,
                            !.pclears = hist.clears, !.pfailed = hist.failed,
                            !.fence = "none"]
    /\ UNCHANGED << cache, remote >>
    /\ UNCHANGED aside

\* verify_token is entered with tok: lines 76-85, and on a cache hit the
\* rest of the function
StartCall(c, tok) ==
    /\ LoopFree
    /\ call[c].pc = "idle"
    /\ \A d \in Calls : d < c => call[d].pc # "idle"   \* the first free slot
    /\ LET r0 == [IdleCall EXCEPT !.token = tok, !.steps = <<"parse">>]
       IN IF tok.wf = "bad_header"
          THEN call' = [call EXCEPT ![c] =
                   [r0 EXCEPT !.pc = "done", !.raised = LibExc("DecodeError"),
                              !.result = Handle(LibExc("DecodeError"))]]
          ELSE IF cache # NoDoc
          THEN \E ans \in RsaAnswers(remote) :
                 call' = [call EXCEPT ![c] =
                   Advance([r0 EXCEPT !.steps = <<"parse", "fetch">>, !.jwks = cache],
                           AfterJwks(tok, cache, ans))]
          ELSE call' = [call EXCEPT ![c] =
                   [r0 EXCEPT !.pc = "fetching", !.steps = <<"parse", "fetch">>,
                              !.resp = Pending, !.nfetch = 1]]
    /\ hist' = [hist EXCEPT !.clears = 0, !.failed = FALSE,
                            !.pclears = hist.clears, !.pfailed = hist.failed,
                            !.fence = "none"]
    /\ UNCHANGED << cache, remote >>
    /\ UNCHANGED aside

\* the endpoint answers the request of get_jwks
ServerAnswer(c) ==
    /\ call[c].pc = "fetching"
    /\ call[c].resp = Pending
    /\ call' = [call EXCEPT ![c].resp = remote]
    /\ UNCHANGED << cache, remote, hist >>
    /\ UNCHANGED aside

\* timeout=10.0 expires before an answer
FetchTimeout(c) ==
    /\ call[c].pc = "fetching"
    /\ call[c].resp = Pending
    /\ call' = [call EXCEPT ![c].resp = TimedOut]
    /\ UNCHANGED << cache, remote, hist >>
    /\ UNCHANGED aside

\* get_jwks resetting the cache when its fetch fails
FetchComplete_ClearsOnFailure(c) ==
    /\ LoopFree
    /\ call[c].pc = "fetching"
    /\ call[c].resp # Pending
    /\ IF call[c].resp \in {Down, TimedOut}
       THEN /\ call' = [call EXCEPT ![c] =
                   [@ EXCEPT !.pc = "done",
                             !.raised = HTTPExc("UpstreamUnavailable", 503),
                             !.result = Handle(HTTPExc("UpstreamUnavailable", 503))]]
            /\ hist' = [hist EXCEPT !.failed = TRUE,
                   !.fence = IF \E d \in Calls \ {c} : call[d].pc = "fetching"
                             THEN @ ELSE "none"]
            /\ cache' = NoDoc
       ELSE /\ cache' = call[c].resp
            /\ call' = [call EXCEPT ![c] = [@ EXCEPT !.pc = "closing", !.jwks = call[c].resp]]
            /\ hist' = [hist EXCEPT !.failed = FALSE, !.last = call[c].resp,
                                    !.fence = IF @ = "none" THEN @ ELSE "stale"]
    /\ UNCHANGED remote
    /\ UNCHANGED aside

\* get_jwks adding the keys it fetched to the cached document
FetchComplete_Merges(c) ==
    /\ LoopFree
    /\ call[c].pc = "fetching"
    /\ call[c].resp # Pending
    /\ IF call[c].resp \in {Down, TimedOut}
       THEN /\ call' = [call EXCEPT ![c] =
                   [@ EXCEPT !.pc = "done",
                             !.raised = HTTPExc("UpstreamUnavailable", 503),
                             !.result = Handle(HTTPExc("UpstreamUnavailable", 503))]]
            /\ hist' = [hist EXCEPT !.failed = TRUE,
                   !.fence = IF \E d \in Calls \ {c} : call[d].pc = "fetching"
                             THEN @ ELSE "none"]
            /\ UNCHANGED cache
       ELSE /\ cache' = IF cache = NoDoc THEN call[c].resp
                        ELSE Doc(cache.keys \o call[c].resp.keys)
            /\ call' = [call EXCEPT ![c] = [@ EXCEPT !.pc = "closing", !.jwks = cache']]
            /\ hist' = [hist EXCEPT !.failed = FALSE, !.last = cache',
                                    !.fence = IF @ = "none" THEN @ ELSE "stale"]
    /\ UNCHANGED remote
    /\ UNCHANGED aside

\* get_jwks storing its document only into an empty cache and returning
\* what the cache holds
FetchComplete_KeepsFirst(c) ==
    /\ LoopFree
    /\ call[c].pc = "fetching"
    /\ call[c].resp # Pending
    /\ IF call[c].resp \in {Down, TimedOut}
       THEN /\ call' = [call EXCEPT ![c] =
                   [@ EXCEPT !.pc = "done",
                             !.raised = HTTPExc("UpstreamUnavailable", 503),
                             !.result = Handle(HTTPExc("UpstreamUnavailable", 503))]]
            /\ hist' = [hist EXCEPT !.failed = TRUE,
                   !.fence = IF \E d \in Calls \ {c} : call[d].pc = "fetching"
                             THEN @ ELSE "none"]
            /\ UNCHANGED cache
       ELSE /\ cache' = IF cache = NoDoc THEN call[c].resp ELSE cache
            /\ call' = [call EXCEPT ![c] = [@ EXCEPT !.pc = "closing", !.jwks = cache']]
            /\ hist' = [hist EXCEPT !.failed = FALSE, !.last = call[c].resp,
                                    !.fence = IF @ = "none" THEN @ ELSE "stale"]
    /\ UNCHANGED remote
    /\ UNCHANGED aside

\* get_jwks not storing a document that was requested before the last
\* clear_jwks_cache call
FetchComplete_Fenced(c) ==
    /\ LoopFree
    /\ call[c].pc = "fetching"
    /\ call[c].resp # Pending
    /\ IF call[c].resp \in {Down, TimedOut}
       THEN /\ call' = [call EXCEPT ![c] =
                   [@ EXCEPT !.pc = "done",
                             !.raised = HTTPExc("UpstreamUnavailable", 503),
                             !.result = Handle(HTTPExc("UpstreamUnavailable", 503))]]
            /\ hist' = [hist EXCEPT !.failed = TRUE,
                   !.fence = IF \E d \in Calls \ {c} : call[d].pc = "fetching"
                             THEN @ ELSE "none"]
            /\ UNCHANGED cache
       ELSE /\ cache' = IF hist.fence = "none" THEN call[c].resp ELSE cache
            /\ call' = [call EXCEPT ![c] = [@ EXCEPT !.pc = "closing", !.jwks = call[c].resp]]
            /\ hist' = [hist EXCEPT !.failed = FALSE,
                                    !.last = IF hist.fence = "none" THEN call[c].resp ELSE @]
    /\ UNCHANGED remote
    /\ UNCHANGED aside

\* get_jwks resumes after client.get: lines 42-49
FetchComplete(c) ==
    /\ LoopFree
    /\ call[c].pc = "fetching"
    /\ call[c].resp # Pending
    /\ IF call[c].resp \in {Down, TimedOut}
       THEN /\ call' = [call EXCEPT ![c] =
                   [@ EXCEPT !.pc = "done",
                             !.raised = HTTPExc("UpstreamUnavailable", 503),
                             !.result = Handle(HTTPExc("UpstreamUnavailable", 503))]]
            /\ hist' = [hist EXCEPT !.failed = TRUE,
                   !.fence = IF \E d \in Calls \ {c} : call[d].pc = "fetching"
                             THEN @ ELSE "none"]
            /\ UNCHANGED cache
       ELSE /\ cache' = call[c].resp
            /\ call' = [call EXCEPT ![c] = [@ EXCEPT !.pc = "closing", !.jwks = call[c].resp]]
            /\ hist' = [hist EXCEPT !.failed = FALSE, !.last = call[c].resp,
                                    !.fence = IF @ = "none" THEN @ ELSE "stale"]
    /\ UNCHANGED remote
    /\ UNCHANGED aside

\* get_jwks returns the document to verify_token: lines 87-149
Continue(c) ==
    /\ LoopFree
    /\ call[c].pc = "closing"
    /\ \E ans \in RsaAnswers(remote) :
         call' = [call EXCEPT ![c] =
                   Advance(call[c], AfterJwks(call[c].token, call[c].jwks, ans))]
    /\ hist' = [hist EXCEPT !.fence = "none"]
    /\ UNCHANGED << cache, remote >>
    /\ UNCHANGED aside

\* PyJWKClient.get_signing_key asks the endpoint a second time
RsaRefresh(c) ==
    /\ call[c].pc = "rsa_refresh"
    /\ \E ans \in RsaAnswers(remote) :
         LET st == WithClaims(call[c].token,
                     RsaBranch(call[c].token, call[c].key_data, ans, TRUE))
         IN call' = [call EXCEPT ![c] = Advance(call[c], [st EXCEPT !.steps = << >>])]
    /\ UNCHANGED << cache, remote, hist >>
    /\ UNCHANGED aside

\* the caller has taken the result; the slot is free again
Return(c) ==
    /\ call[c].pc = "done"
    /\ call' = [call EXCEPT ![c] = IdleCall]
    /\ hist' = [hist EXCEPT !.pclears = 0, !.pfailed = FALSE, !.fence = "none"]
    /\ UNCHANGED << cache, remote >>
    /\ UNCHANGED aside

\* clear_jwks_cache raising (changing nothing) unless the cache is filled
ClearCache_OnlyWhenFilled ==
    /\ LoopFree
    /\ Settled
    /\ cache # NoDoc
    /\ cache' = NoDoc
    /\ hist' = [hist EXCEPT !.clears = IF AllIdle /\ @ < MaxClears THEN @ + 1 ELSE @,
                            !.last = NoDoc,
                            !.fence = IF \E d \in Calls : call[d].pc = "fetching"
                                      THEN "cleared" ELSE "none"]
    /\ UNCHANGED << remote, call >>
    /\ UNCHANGED aside

\* clear_jwks_cache
ClearCache ==
    /\ LoopFree
    /\ Settled
    /\ cache' = NoDoc
    /\ hist' = [hist EXCEPT !.clears = IF AllIdle /\ @ < MaxClears THEN @ + 1 ELSE @,
                            !.last = NoDoc,
                            !.fence = IF \E d \in Calls : call[d].pc = "fetching"
                                      THEN "cleared" ELSE "none"]
    /\ UNCHANGED << remote, call >>
    /\ UNCHANGED aside

\* the endpoint starts to serve another answer out of S
Rotate(S) ==
    /\ Settled
    /\ remote' \in S \ {remote}
    /\ UNCHANGED << cache, call, hist >>
    /\ UNCHANGED aside

\* the issuer rotates its keys, goes down or comes back
RemoteChange == Rotate(Answers)

\* a request arrives while no other is being served
SerialStart(c, tok) ==
    /\ \A d \in Calls : call[d].pc = "idle"
    /\ StartCall(c, tok)

\* clear_jwks_cache is called while no request is being served
SerialClear ==
    /\ \A d \in Calls : call[d].pc = "idle"
    /\ ClearCache

\* requests and invalidations served one at a time
Next ==
    \/ \E c \in Calls, tok \in Tokens : SerialStart(c, tok)
    \/ \E c \in Calls : ServerAnswer(c)
    \/ \E c \in Calls : FetchTimeout(c)
    \/ \E c \in Calls : FetchComplete(c)
    \/ \E c \in Calls : Continue(c)
    \/ \E c \in Calls : RsaRefresh(c)
    \/ \E c \in Calls : Return(c)
    \/ SerialClear
    \/ RemoteChange

Spec == Init /\ [][Next]_vars

\* the tokens of requests served concurrently: one per signature path, both
\* valid against DocEdRsa
ConcTokens ==
    { Tok("ok", "EdDSA", "k1", "edA", "future", "u1", "u1@x.com", None),
      Tok("ok", "RS256", "k2", "rsaA", "future", "u1", "u1@x.com", None) }

\* what the endpoint serves to them: a key set, the key set after a rotation
\* that dropped the RSA key, or an error
ConcAnswers == {DocEdRsa, DocDupKid, Down}

InitConc ==
    /\ cache = NoDoc
    /\ remote \in ConcAnswers
    /\ call = [c \in Calls |-> IdleCall]
    /\ hist = NoHist
    /\ b64 = NoDecode
    /\ db = {}
    /\ reply = NoReply
    /\ storage = NewStorage
    /\ ran = NoRan
    /\ issued = << >>

RemoteChangeConc == Rotate(ConcAnswers)

\* requests served concurrently on one event loop: a coroutine yields only
\* at the awaits of get_jwks
NextConc ==
    \/ \E c \in Calls, tok \in ConcTokens : StartCall(c, tok)
    \/ \E c \in Calls : ServerAnswer(c)
    \/ \E c \in Calls : FetchTimeout(c)
    \/ \E c \in Calls : FetchComplete(c)
    \/ \E c \in Calls : Continue(c)
    \/ \E c \in Calls : RsaRefresh(c)
    \/ \E c \in Calls : Return(c)
    \/ ClearCache
    \/ RemoteChangeConc

SpecConc == InitConc /\ [][NextConc]_vars

\* the same with what the scheduling guarantees: a request of get_jwks that
\* stays unanswered runs into timeout=10.0; the event loop resumes every
\* coroutine that is ready, again and again if blocking calls of others
\* get in between; a blocking request of PyJWKClient comes back
Fairness ==
    \A c \in Calls :
        /\ WF_vars(FetchTimeout(c))
        /\ SF_vars(FetchComplete(c))
        /\ SF_vars(Continue(c))
        /\ WF_vars(RsaRefresh(c))

SpecLive == InitConc /\ [][NextConc]_vars /\ Fairness

(* ----------------- base64url_decode on bounded arguments --------------- *)
\* the characters the arguments are drawn from: values 0, 29, 62 and 63 of
\* the alphabet, and the padding character
B64Chars == {"A", "d", "-", "_", "="}

\* the arguments of tests/test_auth.py: "dGVzdA", "aGVsbG8", "PDw_Pz4-"
B64Test == << "d", "G", "V", "z", "d", "A" >>
B64Hello == << "a", "G", "V", "s", "b", "G", "8" >>
B64UrlSafe == << "P", "D", "w", "_", "P", "z", "4", "-" >>

B64Inputs ==
    UNION { [1..k -> B64Chars] : k \in 0..MaxB64Len }
        \cup {B64Test, B64Hello, B64UrlSafe}

InitB64 ==
    /\ cache = NoDoc
    /\ remote = Down
    /\ call = [c \in Calls |-> IdleCall]
    /\ hist = NoHist
    /\ b64 \in { [NoDecode EXCEPT !.pc = "called", !.data = d] : d \in B64Inputs }
    /\ db = {}
    /\ reply = NoReply
    /\ storage = NewStorage
    /\ ran = NoRan
    /\ issued = << >>

\* base64url_decode(data) runs and returns or raises
Base64urlDecode ==
    /\ b64.pc = "called"
    /\ b64' = [b64 EXCEPT !.pc = "returned",
                          !.padded = Padded(b64.data),
                          !.out = base64url_decode(b64.data)]
    /\ UNCHANGED << auth, web, console >>

NextB64 == Base64urlDecode

SpecB64 == InitB64 /\ [][NextB64]_vars

(* ------------------- the task endpoints, one request at a time --------- *)
\* the one row SelectTask found
TheRow(found) == CHOOSE t \in found : TRUE

\* session.add(task); session.commit() of a changed row: the title column is
\* NOT NULL, so a row whose title was set to None is refused and the
\* session rolled back
Commit(op, user, user_id, task_id, old, new) ==
    IF new.title = None
    THEN /\ db' = db
         /\ reply' = Reply(op, user, user_id, task_id, 500, TRUE, {})
    ELSE /\ db' = (db \ {old}) \cup {new}
         /\ reply' = Reply(op, user, user_id, task_id, 200, TRUE, {new})

\* GET /{user_id}/tasks
ListTasks(user, user_id) ==
    /\ IF user # user_id
       THEN reply' = Forbidden("list", user, user_id, 0)
       ELSE reply' = Reply("list", user, user_id, 0, 200, TRUE, SelectUser(db, user_id))
    /\ db' = db
    /\ UNCHANGED << auth, b64, console >>

\* POST /{user_id}/tasks
CreateTask(user, user_id, task_in) ==
    /\ IF user # user_id
       THEN /\ reply' = Forbidden("create", user, user_id, 0)
            /\ db' = db
       ELSE \E id \in FreshIds(db) :
               /\ db' = db \cup {NewRow(id, user_id, task_in)}
               /\ reply' = Reply("create", user, user_id, id, 200, FALSE,
                                 {NewRow(id, user_id, task_in)})
    /\ UNCHANGED << auth, b64, console >>

\* GET /{user_id}/tasks/{task_id}
GetTask(user, user_id, task_id) ==
    /\ IF user # user_id
       THEN reply' = Forbidden("get", user, user_id, task_id)
       ELSE LET found == SelectTask(db, task_id, user_id)
            IN IF found = {}
               THEN reply' = NotFound("get", user, user_id, task_id)
               ELSE reply' = Reply("get", user, user_id, task_id, 200, TRUE, found)
    /\ db' = db
    /\ UNCHANGED << auth, b64, console >>

\* PUT /{user_id}/tasks/{task_id}
UpdateTask(user, user_id, task_id, task_in) ==
    /\ IF user # user_id
       THEN /\ reply' = Forbidden("update", user, user_id, task_id)
            /\ db' = db
       ELSE LET found == SelectTask(db, task_id, user_id)
            IN IF found = {}
               THEN /\ reply' = NotFound("update", user, user_id, task_id)
                    /\ db' = db
               ELSE Commit("update", user, user_id, task_id, TheRow(found),
                           [SetFields(TheRow(found), task_in)
                               EXCEPT !.updated_at = "later"])
    /\ UNCHANGED << auth, b64, console >>

\* delete_task without its call of verify_user_access
DeleteTask_NoAccessCheck(user, user_id, task_id) ==
    /\ LET found == SelectTask(db, task_id, user_id)
       IN IF found = {}
          THEN /\ reply' = NotFound("delete", user, user_id, task_id)
               /\ db' = db
          ELSE /\ db' = db \ {TheRow(found)}
               /\ reply' = Reply("delete", user, user_id, task_id, 200, TRUE, {})
    /\ UNCHANGED << auth, b64, console >>

\* DELETE /{user_id}/tasks/{task_id}
DeleteTask(user, user_id, task_id) ==
    /\ IF user # user_id
       THEN /\ reply' = Forbidden("delete", user, user_id, task_id)
            /\ db' = db
       ELSE LET found == SelectTask(db, task_id, user_id)
            IN IF found = {}
               THEN /\ reply' = NotFound("delete", user, user_id, task_id)
                    /\ db' = db
               ELSE /\ db' = db \ {TheRow(found)}
                    /\ reply' = Reply("delete", user, user_id, task_id, 200, TRUE, {})
    /\ UNCHANGED << auth, b64, console >>

\* PATCH /{user_id}/tasks/{task_id}/complete
ToggleTaskComplete(user, user_id, task_id) ==
    /\ IF user # user_id
       THEN /\ reply' = Forbidden("toggle", user, user_id, task_id)
            /\ db' = db
       ELSE LET found == SelectTask(db, task_id, user_id)
            IN IF found = {}
               THEN /\ reply' = NotFound("toggle", user, user_id, task_id)
                    /\ db' = db
               ELSE Commit("toggle", user, user_id, task_id, TheRow(found),
                           [TheRow(found) EXCEPT !.completed = ~@,
                                                 !.updated_at = "later"])
    /\ UNCHANGED << auth, b64, console >>

\* the task ids of requests: those the table hands out and one it never does
PathIds == 1..(MaxTaskId + 1)

InitWeb ==
    /\ cache = NoDoc
    /\ remote = Down
    /\ call = [c \in Calls |-> IdleCall]
    /\ hist = NoHist
    /\ b64 = NoDecode
    /\ db = {}
    /\ reply = NoReply
    /\ storage = NewStorage
    /\ ran = NoRan
    /\ issued = << >>

NextWeb ==
    \/ \E u \in Users, p \in Users : ListTasks(u, p)
    \/ \E u \in Users, p \in Users, b \in TaskCreates : CreateTask(u, p, b)
    \/ \E u \in Users, p \in Users, i \in PathIds : GetTask(u, p, i)
    \/ \E u \in Users, p \in Users, i \in PathIds, b \in TaskUpdates :
            UpdateTask(u, p, i, b)
    \/ \E u \in Users, p \in Users, i \in PathIds : DeleteTask(u, p, i)
    \/ \E u \in Users, p \in Users, i \in PathIds : ToggleTaskComplete(u, p, i)

SpecWeb == InitWeb /\ [][NextWeb]_vars

(* ------------------- the console app, one operation at a time ---------- *)
\* the descriptions typed in: empty, one letter, the limit, one more, bare
\* or with a space before or after
DescriptionArgs ==
    { Description(pre, len, post) :
          pre \in 0..1, len \in {0, 1, MaxDescription, MaxDescription + 1},
          post \in 0..1 }

\* the task ids typed in: those that were assigned, and the next
TaskIdArgs == 1..(MaxAdds + 1)

\* the id of the task that add stored
AddedId(before, after) ==
    after.tasks[CHOOSE i \in StoredIds(after) \ StoredIds(before) : TRUE].id

\* add_task(storage, description)
add_task(description) ==
    /\ IF DescriptionError(description) # None
       THEN /\ ran' = Ran("add_task", 0, description,
                          DescriptionError(description), 0, << >>)
            /\ UNCHANGED << storage, issued >>
       ELSE /\ storage.next_id <= MaxAdds
            /\ storage' = StorageAdd(storage, Task(0, Strip(description), FALSE))
            /\ issued' = Append(issued, AddedId(storage, storage'))
            /\ ran' = Ran("add_task", 0, description, None,
                          AddedId(storage, storage'), << >>)
    /\ UNCHANGED << auth, b64, web >>

\* view_tasks(storage)
view_tasks ==
    /\ ran' = Ran("view_tasks", 0, NoDescription, None, 0, StorageGetAll(storage))
    /\ UNCHANGED << storage, issued >>
    /\ UNCHANGED << auth, b64, web >>

\* mark_complete(storage, task_id)
mark_complete(task_id) ==
    /\ IF ~StorageHas(storage, task_id)
       THEN /\ ran' = Ran("mark_complete", task_id, NoDescription,
                          "TaskNotFoundError", 0, << >>)
            /\ storage' = storage
       ELSE /\ storage' = StorageUpdate(storage, task_id,
                              [storage.tasks[task_id] EXCEPT !.completed = TRUE])
            /\ ran' = Ran("mark_complete", task_id, NoDescription, None, 0, << >>)
    /\ UNCHANGED issued
    /\ UNCHANGED << auth, b64, web >>

\* update_task assigning task.description before it validates it
update_task_AssignsFirst(task_id, description) ==
    /\ IF ~StorageHas(storage, task_id)
       THEN /\ ran' = Ran("update_task", task_id, description,
                          "TaskNotFoundError", 0, << >>)
            /\ storage' = storage
       ELSE /\ storage' = StorageUpdate(storage, task_id,
                              [storage.tasks[task_id]
                                  EXCEPT !.description = Strip(description)])
            /\ ran' = Ran("update_task", task_id, description,
                          DescriptionError(description), 0, << >>)
    /\ UNCHANGED issued
    /\ UNCHANGED << auth, b64, web >>

\* update_task(storage, task_id, description)
update_task(task_id, description) ==
    /\ IF ~StorageHas(storage, task_id)
       THEN /\ ran' = Ran("update_task", task_id, description,
                          "TaskNotFoundError", 0, << >>)
            /\ storage' = storage
       ELSE IF DescriptionError(description) # None
       THEN /\ ran' = Ran("update_task", task_id, description,
                          DescriptionError(description), 0, << >>)
            /\ storage' = storage
       ELSE /\ storage' = StorageUpdate(storage, task_id,
                              [storage.tasks[task_id]
                                  EXCEPT !.description = Strip(description)])
            /\ ran' = Ran("update_task", task_id, description, None, 0, << >>)
    /\ UNCHANGED issued
    /\ UNCHANGED << auth, b64, web >>

\* delete_task(storage, task_id)
delete_task(task_id) ==
    /\ IF ~StorageHas(storage, task_id)
       THEN /\ ran' = Ran("delete_task", task_id, NoDescription,
                          "TaskNotFoundError", 0, << >>)
            /\ storage' = storage
       ELSE /\ storage' = StorageDelete(storage, task_id)
            /\ ran' = Ran("delete_task", task_id, NoDescription, None, 0, << >>)
    /\ UNCHANGED issued
    /\ UNCHANGED << auth, b64, web >>

InitConsole ==
    /\ cache = NoDoc
    /\ remote = Down
    /\ call = [c \in Calls |-> IdleCall]
    /\ hist = NoHist
    /\ b64 = NoDecode
    /\ db = {}
    /\ reply = NoReply
    /\ storage = NewStorage
    /\ ran = NoRan
    /\ issued = << >>

\* main(): the menu loop
NextConsole ==
    \/ \E d \in DescriptionArgs : add_task(d)
    \/ view_tasks
    \/ \E i \in TaskIdArgs : mark_complete(i)
    \/ \E i \in TaskIdArgs, d \in DescriptionArgs : update_task(i, d)
    \/ \E i \in TaskIdArgs : delete_task(i)

SpecConsole == InitConsole /\ [][NextConsole]_vars

(* ----------------------- vocabulary of the claims --------------------- *)
Supported == {"EdDSA"} \cup RsaAlgs

AlgFamily(alg) ==
    IF alg = "EdDSA" THEN "EdDSA" ELSE IF alg \in RsaAlgs THEN "RSA" ELSE "other"

RecFamily(rec) ==
    IF rec.kty = "OKP" /\ rec.crv = "Ed25519" THEN "EdDSA"
    ELSE IF rec.kty = "RSA" THEN "RSA" ELSE "other"

Done(c) == call[c].pc = "done"

\* the call has entered the step
Reached(c, step) == \E i \in 1..Len(call[c].steps) : call[c].steps[i] = step

\* the call holds a key-set document from get_jwks
Obtained(c) == call[c].jwks.st = "doc"

Records(doc) == { doc.keys[i] : i \in 1..Len(doc.keys) }
Materials(doc) == { r.mat : r \in Records(doc) }

\* every key-set document the call consulted: the one from get_jwks and the
\* answers the RSA branch got
Consulted(c) == {call[c].jwks} \cup { call[c].rdocs[i] : i \in 1..Len(call[c].rdocs) }

\* every record of that document carries its key material
Usable(c) == \A r \in Records(call[c].jwks) : r.mat # None

\* the endpoint served the RSA branch the document get_jwks returned
SameKeySet(c) == \A i \in 1..Len(call[c].rdocs) : call[c].rdocs[i] = call[c].jwks

\* the token of the call was signed by a key of none of these documents
Foreign(c) == \A d \in Consulted(c) : call[c].token.signer \notin Materials(d)

StepOrder == <<"parse", "fetch", "resolve", "verify", "extract">>

IsPrefix(s, t) == Len(s) <= Len(t) /\ \A i \in 1..Len(s) : s[i] = t[i]

(* ------------------------------- claims ------------------------------- *)
\* C1: verify_token returns an identity only after a signature check of that
\* token succeeded, against a record of the cached key set on the EdDSA path
\* or a record the endpoint served on the RSA path; the identity carries the
\* claims of the checked token.
C1_IdentityOnlyAfterSignatureCheck ==
    \A c \in Calls :
        call[c].result.kind = "Identity" =>
            /\ Len(call[c].checks) = 1
            /\ LET k == call[c].checks[1]
               IN /\ k.ok
                  /\ k.key.mat = call[c].token.signer
                  /\ \/ /\ k.src = "cache"
                        /\ call[c].token.alg = "EdDSA"
                        /\ Obtained(c)
                        /\ k.key \in Records(call[c].jwks)
                     \/ /\ k.src = "remote"
                        /\ call[c].token.alg \in RsaAlgs
                        /\ \E i \in 1..Len(call[c].rdocs) :
                               k.key \in Records(call[c].rdocs[i])
            /\ call[c].result = Identity(call[c].token.sub, call[c].token.email,
                                         call[c].token.name)

C1_Witness ==
    \E c \in Calls :
        /\ call[c].result.kind = "Identity"
        /\ call[c].checks[1].src = "remote"
        /\ call[c].jwks # call[c].rdocs[1]

\* C2: a token whose declared algorithm is outside {EdDSA, RS256, RS384,
\* RS512} ends in UnsupportedAlgorithm whatever the key set holds.
C2_UnsupportedWhateverKeySet ==
    \A c \in Calls :
        ( /\ Done(c)
          /\ Obtained(c)
          /\ call[c].token.alg # None
          /\ call[c].token.alg \notin Supported )
        => call[c].result.kind = "UnsupportedAlgorithm"

\* C3: a token whose key identifier matches a record of another algorithm
\* family than the declared algorithm ends in UnsupportedAlgorithm, and no
\* signature check is made for it.
C3_FamilyMismatchRejected ==
    \A c \in Calls :
        ( /\ Done(c)
          /\ Obtained(c) /\ SameKeySet(c) /\ Usable(c)
          /\ call[c].token.wf = "ok"
          /\ call[c].token.alg \in Supported
          /\ Truthy(call[c].token.kid)
          /\ call[c].key_data # NoKey
          /\ call[c].key_data.kid = call[c].token.kid
          /\ RecFamily(call[c].key_data) # AlgFamily(call[c].token.alg) )
        => /\ call[c].result.kind = "UnsupportedAlgorithm"
           /\ call[c].checks = << >>

\* C4: a token without key identifier, against a key set of two keys whose
\* first key is of another family than the declared algorithm, ends in
\* UnsupportedAlgorithm, and no signature check is made for it.
C4_NoKidFirstKeyMismatch ==
    \A c \in Calls :
        ( /\ Done(c)
          /\ Obtained(c) /\ SameKeySet(c)
          /\ call[c].token.wf = "ok"
          /\ call[c].token.alg \in Supported
          /\ call[c].token.kid = None
          /\ Len(call[c].jwks.keys) = 2
          /\ RecFamily(call[c].jwks.keys[1]) # AlgFamily(call[c].token.alg) )
        => /\ call[c].result.kind = "UnsupportedAlgorithm"
           /\ call[c].checks = << >>

\* C5 as stated: a well-formed token of a supported algorithm, signed by a
\* key that is not in the key set, ends in SignatureInvalid or KeyNotFound.
C5_ForeignKeySigInvalidOrNotFound ==
    \A c \in Calls :
        ( /\ Done(c) /\ Obtained(c) /\ Usable(c) /\ Foreign(c)
          /\ call[c].token.wf = "ok"
          /\ call[c].token.alg \in Supported )
        => call[c].result.kind \in {"SignatureInvalid", "KeyNotFound"}

\* C5 as amended: a token signed by a key that is in no key set the call
\* consulted never yields an identity; it ends in a 401 failure raised at or
\* before the signature check: KeyNotFound when the resolver finds no record,
\* SignatureInvalid whenever a signature check is made, and otherwise
\* UnsupportedAlgorithm, a token validation failure or the generic
\* authentication error.
C5_ForeignKeyNeverIdentity ==
    \A c \in Calls :
        (Done(c) /\ Obtained(c) /\ Foreign(c))
        => /\ call[c].result.status = 401
           /\ call[c].result.kind \in
                  {"SignatureInvalid", "KeyNotFound", "UnsupportedAlgorithm",
                   "MalformedToken", "AlgorithmNotAllowed", "AuthenticationError"}
           /\ call[c].result.kind = "KeyNotFound" <=> call[c].key_data = NoKey
           /\ call[c].checks # << >> <=> call[c].result.kind = "SignatureInvalid"
           /\ \A i \in 1..Len(call[c].checks) : ~call[c].checks[i].ok

C5_Witness ==
    \E c \in Calls :
        /\ Done(c) /\ Obtained(c) /\ Foreign(c)
        /\ call[c].token.kid = None
        /\ call[c].token.signer = "forged"
        /\ call[c].result.kind = "SignatureInvalid"

\* C6: a validly signed, non-expired token with subject and email, signed
\* under a supported algorithm by the key of the key set that the resolver
\* selects, yields the identity of its claims.
C6_ValidTokenYieldsIdentity ==
    \A c \in Calls :
        ( /\ Done(c)
          /\ Obtained(c) /\ SameKeySet(c)
          /\ call[c].token.wf = "ok"
          /\ call[c].token.alg \in Supported
          /\ call[c].token.exp # "past"
          /\ Truthy(call[c].token.sub)
          /\ Truthy(call[c].token.email)
          /\ call[c].key_data # NoKey
          /\ call[c].key_data.mat = call[c].token.signer
          /\ RecFamily(call[c].key_data) = AlgFamily(call[c].token.alg) )
        => call[c].result = Identity(call[c].token.sub, call[c].token.email,
                                     call[c].token.name)

\* C7: with a key identifier in the token, key_data is the first record of
\* that identifier; without such a record the call ends in KeyNotFound and
\* makes no signature check.
C7_ResolveByKid ==
    \A c \in Calls :
        (Reached(c, "resolve") /\ Obtained(c) /\ Usable(c) /\ call[c].token.kid # None)
        => LET kid == call[c].token.kid
               idx == { i \in 1..Len(call[c].jwks.keys) : call[c].jwks.keys[i].kid = kid }
           IN IF idx = {}
              THEN /\ call[c].key_data = NoKey
                   /\ call[c].checks = << >>
                   /\ Done(c) /\ call[c].result.kind = "KeyNotFound"
              ELSE \E i \in idx : /\ \A j \in idx : i <= j
                                  /\ call[c].key_data = call[c].jwks.keys[i]

\* C8: without a key identifier in the token, key_data is the first record
\* of the key-set document, whatever its type and identifier; with an empty
\* key set the call ends in KeyNotFound.
C8_NoKidFirstRecord ==
    \A c \in Calls :
        (Reached(c, "resolve") /\ Obtained(c) /\ call[c].token.kid = None)
        => IF Len(call[c].jwks.keys) = 0
           THEN /\ call[c].key_data = NoKey
                /\ Done(c) /\ call[c].result.kind = "KeyNotFound"
           ELSE call[c].key_data = call[c].jwks.keys[1]

C8_Witness ==
    \E c \in Calls :
        /\ Reached(c, "resolve") /\ Obtained(c) /\ call[c].token.kid = None
        /\ Len(call[c].jwks.keys) >= 2
        /\ call[c].key_data = call[c].jwks.keys[1]
        /\ call[c].key_data.kid = None
        /\ call[c].jwks.keys[2].mat = call[c].token.signer

\* C9: the steps run in the order parse, fetch, resolve, verify, extract; a
\* call that raised returns no identity; and a key-set fetch that failed is
\* returned as UpstreamUnavailable (503), not re-mapped by the handlers.
C9_StepsInOrderFailureAsIs ==
    \A c \in Calls :
        /\ IsPrefix(call[c].steps, StepOrder)
        /\ Done(c) =>
             /\ (call[c].raised # NoExc) <=> (call[c].result.kind # "Identity")
             /\ (call[c].result.kind = "Identity") => (call[c].steps = StepOrder)
             /\ ( \/ call[c].raised.kind = "UpstreamUnavailable"
                  \/ call[c].raised.cls = "PyJWKClientConnectionError" )
                => call[c].result = Failure("UpstreamUnavailable", 503)

\* C10: a token of an unsupported algorithm is rejected at once: no request
\* for the key set is made for it, no key lookup, and it ends in
\* UnsupportedAlgorithm.
C10_UnsupportedRejectedBeforeLookup ==
    \A c \in Calls :
        ( /\ call[c].pc # "idle"
          /\ call[c].token.wf = "ok"
          /\ call[c].token.alg # None
          /\ call[c].token.alg \notin Supported )
        => /\ call[c].nfetch = 0
           /\ ~Reached(c, "resolve")
           /\ Done(c) => call[c].result.kind = "UnsupportedAlgorithm"

\* C11: when the fetch of get_jwks fails (network error, non-2xx status,
\* body that is no JSON, timeout), the call ends with UpstreamUnavailable
\* (503) and the step leaves the cache as it was, also when another call's
\* fetch filled the cache while this one was in flight.
C11_FailedFetchLeavesCache ==
    [][\A c \in Calls :
          (call[c].pc = "fetching" /\ call[c].resp \in {Down, TimedOut}
             /\ call'[c] # call[c])
          => /\ cache' = cache
             /\ call'[c].pc = "done"
             /\ call'[c].result = Failure("UpstreamUnavailable", 503)]_vars

\* a fetch has failed, as the last one to complete, under a cache that
\* another call's fetch had filled since the failing call was entered
C11_Witness ==
    /\ hist.failed
    /\ cache # NoDoc
    /\ cache = hist.last
    /\ \E c \in Calls : Done(c) /\ call[c].result = Failure("UpstreamUnavailable", 503)

\* a fetch of the key-set document failed during the call: the one of
\* get_jwks, or one PyJWKClient made on the RSA path
FetchFailed(c) ==
    \/ call[c].resp \in {Down, TimedOut}
    \/ \E i \in 1..Len(call[c].rdocs) : call[c].rdocs[i] \in {Down, TimedOut}

\* C12: every failure to fetch the key-set document during a verify_token
\* call, through get_jwks or on the RSA path directly against the endpoint,
\* ends the call with UpstreamUnavailable (503), never with a 401.
C12_FetchFailureIsUpstreamUnavailable ==
    \A c \in Calls :
        (Done(c) /\ FetchFailed(c)) =>
            call[c].result = Failure("UpstreamUnavailable", 503)

\* the step enters get_jwks in call c (verify_token got past its header)
EntersGetJwks(c) ==
    call[c].pc = "idle" /\ call'[c].pc # "idle" /\ call'[c].token.wf # "bad_header"

\* the step is the successful completion of the fetch of call c
FetchSucceeds(c) ==
    /\ call[c].pc = "fetching"
    /\ call[c].resp \notin {Pending, Down, TimedOut}
    /\ call'[c].pc = "closing"

\* the lifecycle but for the steps that change a filled cache
LifecycleSteps ==
    /\ (cache = NoDoc /\ cache' # NoDoc) =>
           \E c \in Calls : FetchSucceeds(c) /\ cache' = call[c].resp
    /\ \A c \in Calls :
           EntersGetJwks(c) =>
              IF cache # NoDoc
              THEN /\ call'[c].jwks = cache
                   /\ call'[c].pc # "fetching"
                   /\ call'[c].nfetch = Len(call'[c].rdocs)
                   /\ cache' = cache
              ELSE call'[c].pc = "fetching" /\ call'[c].nfetch = 1

\* C13 (as stated): the cache is empty at startup; it becomes filled only
\* when a fetch succeeds; once filled, every later get_jwks call returns
\* the cached document and the cached value changes only by a call of
\* clear_jwks_cache, which empties it; a get_jwks call entered on an empty
\* cache fetches.
C13_CacheLifecycle ==
    /\ cache = NoDoc
    /\ [][/\ LifecycleSteps
          /\ (cache # NoDoc /\ cache' # cache) =>
                 (cache' = NoDoc /\ call' = call)]_vars

\* C13 (amended): as above, but a filled cache is also replaced when a fetch
\* that was started while the cache was empty completes successfully.
C13_CacheLifecycleLastFetchWins ==
    /\ cache = NoDoc
    /\ [][/\ LifecycleSteps
          /\ (cache # NoDoc /\ cache' # cache) =>
                 \/ cache' = NoDoc /\ call' = call
                 \/ \E c \in Calls : FetchSucceeds(c) /\ cache' = call[c].resp]_vars

\* two calls have each completed a fetch, with different documents, and the
\* cache holds the document of one of them
C13_Witness ==
    \E c, d \in Calls :
        /\ call[c].pc = "closing" /\ call[d].pc = "closing"
        /\ call[c].jwks # call[d].jwks
        /\ cache = call[d].jwks

\* the step is a call of clear_jwks_cache: the one operation that touches
\* neither a verify_token call nor the endpoint
ClearStep == call' = call /\ remote' = remote

\* C14: clear_jwks_cache can be called whenever the event loop is free,
\* whether the cache is empty or filled (it raises nothing); it leaves the
\* cache empty and touches nothing else, so that a second call in a row
\* leaves the state the first one left.
C14_ClearIdempotentTotal ==
    /\ []((LoopFree /\ Settled) => ENABLED ClearCache)
    /\ [][ClearStep => cache' = NoDoc]_vars

\* clear_jwks_cache has been called twice in a row
C14_Witness == hist.clears >= 2 /\ cache = NoDoc

\* the token of the call is valid against the key set the call worked with:
\* well formed, not expired, with subject and email, declaring a supported
\* algorithm, signed by the key of the record the resolver selects
ValidToken(c) ==
    /\ Obtained(c) /\ Usable(c) /\ SameKeySet(c)
    /\ call[c].token.wf = "ok"
    /\ call[c].token.alg \in Supported
    /\ call[c].token.exp # "past"
    /\ Truthy(call[c].token.sub)
    /\ Truthy(call[c].token.email)
    /\ call[c].key_data # NoKey
    /\ call[c].key_data.mat = call[c].token.signer
    /\ RecFamily(call[c].key_data) = AlgFamily(call[c].token.alg)

\* the requests get_jwks made in the call (the others are PyJWKClient's)
CacheFetches(c) == call[c].nfetch - Len(call[c].rdocs)

\* C15: a verify_token call entered right after clear_jwks_cache was called,
\* once or twice in a row, with a valid token of any supported algorithm
\* (here: one that names its key), returns the identity and has issued
\* exactly one request for the key set.
C15_OneFetchAfterClear ==
    \A c \in Calls :
        (Done(c) /\ hist.pclears >= 1 /\ ValidToken(c) /\ Truthy(call[c].token.kid))
        => /\ call[c].result.kind = "Identity"
           /\ call[c].nfetch = 1

\* get_jwks found the cache filled when the call entered it (it sent no
\* request of its own)
CacheHit(c) == Reached(c, "fetch") /\ call[c].resp = NoDoc

\* C16: a verify_token call that found the cache filled has issued no HTTP
\* request to the key-set endpoint, and one that found it empty has issued
\* one.
C16_RequestsOnlyOnCacheMiss ==
    \A c \in Calls :
        (Done(c) /\ Reached(c, "fetch"))
        => call[c].nfetch = IF CacheHit(c) THEN 0 ELSE 1

\* C17: a verify_token call whose fetch got an error answer (HTTP 500) ends
\* with UpstreamUnavailable; and a call with a valid token, entered after
\* such a failure and a clear_jwks_cache, the endpoint serving a key set
\* again, fetches the key set and returns the identity.
C17_RecoversAfterFailedFetch ==
    \A c \in Calls :
        /\ (Done(c) /\ call[c].resp = Down)
           => call[c].result = Failure("UpstreamUnavailable", 503)
        /\ (Done(c) /\ hist.pfailed /\ hist.pclears >= 1 /\ ValidToken(c))
           => /\ CacheFetches(c) = 1
              /\ call[c].result.kind = "Identity"

\* C18: a verify_token call that misses the cache starts a fetch of its own,
\* whatever fetches other calls have in flight; and the cache holds the
\* document of the fetch that completed (with a document) last since the
\* last clear_jwks_cache, so also once all the calls have completed.
C18_EachMissFetchesLastWins ==
    /\ [](hist.last # NoDoc => cache = hist.last)
    /\ [][\A c \in Calls :
            (EntersGetJwks(c) /\ cache = NoDoc)
            => /\ call'[c].pc = "fetching"
               /\ call'[c].resp = Pending
               /\ call'[c].nfetch = 1]_vars

\* two calls that each fetched, with different documents, have both
\* completed, and the cache holds one of the two documents
C18_Witness ==
    \E c, d \in Calls :
        /\ Done(c) /\ Done(d)
        /\ CacheFetches(c) = 1 /\ CacheFetches(d) = 1
        /\ Obtained(c) /\ Obtained(d)
        /\ call[c].jwks # call[d].jwks
        /\ cache = call[d].jwks

\* the bodies the endpoint serves with a 2xx status, each as a whole
Served == Answers \ {Down}

\* C19: under every interleaving of fetches, clear_jwks_cache calls and
\* readers, the cache is empty or holds one document exactly as the endpoint
\* served it to one fetch, and the document a call got from get_jwks is such
\* a document too: never a merge of two fetches, never a part of one.
C19_CacheHoldsWholeDocument ==
    /\ cache \in {NoDoc} \cup Served
    /\ \A c \in Calls : call[c].jwks \in {NoDoc} \cup Served

\* a call still holds the document it got from get_jwks while the cache has
\* been replaced by another fetch
C19_Witness ==
    \E c \in Calls :
        /\ call[c].pc = "closing"
        /\ cache # NoDoc
        /\ cache # call[c].jwks

\* a request of the call for the key set ran into its timeout
TimeoutExpired(c) ==
    \/ call[c].resp = TimedOut
    \/ \E i \in 1..Len(call[c].rdocs) : call[c].rdocs[i] = TimedOut

\* every verify_token call that was entered returns
EveryCallReturns == \A c \in Calls : (call[c].pc # "idle") ~> Done(c)

\* C20: every verify_token call eventually returns, with an identity or a
\* failure, also when the endpoint never answers; and a call in which a
\* request for the key set ran into its timeout ends with
\* UpstreamUnavailable.
C20_ReturnsAndTimeoutIsUpstream ==
    /\ EveryCallReturns
    /\ [](\A c \in Calls :
            (Done(c) /\ TimeoutExpired(c))
            => call[c].result = Failure("UpstreamUnavailable", 503))

\* C21: once jwt.decode has accepted the token (signature checked), a
\* missing or empty sub or email claim ends the call with InvalidPayload and
\* no identity; otherwise the call returns the identity with sub as id, the
\* email, and the name claim as it is (None when absent).
C21_ClaimsMapping ==
    \A c \in Calls :
        (Done(c) /\ Reached(c, "extract"))
        => /\ Len(call[c].checks) = 1 /\ call[c].checks[1].ok
           /\ IF call[c].token.sub \in {None, ""} \/ call[c].token.email \in {None, ""}
              THEN call[c].result = Failure("InvalidPayload", 401)
              ELSE call[c].result =
                      Identity(call[c].token.sub, call[c].token.email, call[c].token.name)

\* a token with a subject and an empty email passed its signature check and
\* was refused for its payload
C21_Witness ==
    \E c \in Calls :
        /\ Done(c) /\ Reached(c, "extract")
        /\ call[c].token.sub = "u1" /\ call[c].token.email = ""
        /\ call[c].token.name = "Ann"
        /\ call[c].result = Failure("InvalidPayload", 401)

\* the signature of the call's token was checked and found good
SignatureVerified(c) == Len(call[c].checks) = 1 /\ call[c].checks[1].ok

\* C22: a token with a good signature whose exp is in the past ends with
\* TokenExpired, an outcome other than the one of a signature that does not
\* verify; no token with exp in the past yields an identity; and only a
\* token with exp in the past is refused as expired, never one without exp.
C22_ExpiredIsDedicatedOutcome ==
    \A c \in Calls :
        Done(c) =>
           /\ (SignatureVerified(c) /\ call[c].token.wf = "ok" /\ call[c].token.exp = "past")
                 => /\ call[c].result = Failure("TokenExpired", 401)
                    /\ call[c].result # Failure("SignatureInvalid", 401)
           /\ call[c].token.exp = "past" => call[c].result.kind # "Identity"
           /\ call[c].result.kind = "TokenExpired" => call[c].token.exp = "past"

\* an expired RSA token with a good signature was refused as expired, and
\* the same call would have ended in an identity without exp
C22_Witness ==
    \E c \in Calls :
        /\ Done(c) /\ SignatureVerified(c)
        /\ call[c].token.alg = "RS256"
        /\ call[c].token.exp = "past"
        /\ Truthy(call[c].token.sub) /\ Truthy(call[c].token.email)
        /\ call[c].result = Failure("TokenExpired", 401)

\* C23: a structurally malformed token (unreadable header, or a payload
\* segment that is no JSON object), also when the key set holds the key its
\* header names, ends with the malformed-token outcome, and no signature
\* check was made on it.
C23_MalformedBeforeCrypto ==
    \A c \in Calls :
        ( /\ Done(c)
          /\ call[c].token.wf \in {"bad_header", "bad_payload"}
          /\ call[c].token.wf = "bad_payload"
                => (Obtained(c) /\ Usable(c) /\ SameKeySet(c) /\ call[c].key_data # NoKey) )
        => /\ call[c].result = Failure("MalformedToken", 401)
           /\ call[c].checks = << >>

\* the argument of a base64url_decode call that returned has n characters,
\* all of the URL-safe alphabet
Unpadded(n) ==
    /\ b64.pc = "returned"
    /\ Len(b64.data) = n
    /\ \A ch \in Chars(b64.data) : Sextet(UrlSafeAlphabet, ch) # -1

\* byte j (from 0) of the bit string that the 6-bit values of data spell
ByteOf(data, j) ==
    LET i0 == (8 * j) \div 6
        o == (8 * j) % 6
        v == Sextet(UrlSafeAlphabet, data[i0 + 1]) * 64
                + Sextet(UrlSafeAlphabet, data[i0 + 2])
    IN (v \div (2 ^ (4 - o))) % 256

\* b"test", b"hello"
BytesTest == << 116, 101, 115, 116 >>
BytesHello == << 104, 101, 108, 108, 111 >>

\* C24: base64url_decode appends "=" up to the next multiple of 4 exactly
\* when the length of its argument is no multiple of 4 (two for length mod 4
\* = 2, one for mod 4 = 3, none for mod 4 = 0), then decodes with the
\* URL-safe alphabet: an unpadded argument yields the bytes its characters
\* spell, "dGVzdA" yields b"test" and "aGVsbG8" yields b"hello".
C24_PadsThenDecodesUrlSafe ==
    b64.pc = "returned" =>
        LET n == Len(b64.data)
            k == Len(b64.padded) - n
        IN /\ k >= 0
           /\ b64.padded = b64.data \o Pads(k)
           /\ Len(b64.padded) % 4 = 0
           /\ k < 4
           /\ (k # 0) <=> (n % 4 # 0)
           /\ n % 4 = 2 => k = 2
           /\ n % 4 = 3 => k = 1
           /\ (Unpadded(n) /\ n % 4 # 1) =>
                 /\ Len(b64.out) = (3 * n) \div 4
                 /\ \A j \in 0..(Len(b64.out) - 1) : b64.out[j + 1] = ByteOf(b64.data, j)
           /\ b64.data = B64Test => b64.out = BytesTest
           /\ b64.data = B64Hello => b64.out = BytesHello

\* C24 witness: "aGVsbG8", of length 7, was padded with one "=" and decoded
\* to b"hello".
C24_Witness ==
    /\ b64.pc = "returned"
    /\ b64.data = B64Hello
    /\ b64.padded = B64Hello \o << "=" >>
    /\ b64.out = BytesHello

\* the endpoints that take a task id
TaskOps == {"get", "update", "delete", "toggle"}

\* the request answered last came from a user other than the one of its path
ForeignPath == reply.op # None /\ reply.user # reply.user_id

\* C25: a task endpoint called by an authenticated user whose id differs
\* from the user_id of the path answers 403 without having looked up any
\* task, whether the task id exists or not, and no row of the table changes.
C25_ForeignPathForbidden ==
    [][ ForeignPath' =>
            /\ reply'.status = 403
            /\ ~reply'.looked
            /\ reply'.data = {}
            /\ db' = db ]_vars

\* C25 witness: a delete for a task that exists and belongs to the user of
\* the path, sent by another user, was answered 403.
C25_Witness ==
    /\ ForeignPath
    /\ reply.op = "delete"
    /\ reply.status = 403
    /\ \E t \in db : t.id = reply.task_id /\ t.user_id = reply.user_id

\* the rows a user owns
OwnedBy(rows, user) == { t \in rows : t.user_id = user }

\* the request being answered comes from the user of its path and names a
\* task that is stored and owned by another user
AddressesOthersTask ==
    /\ reply'.op \in TaskOps
    /\ reply'.user = reply'.user_id
    /\ \E t \in db : t.id = reply'.task_id /\ t.user_id # reply'.user

\* C26: list answers with exactly the rows whose user_id is the id of the
\* authenticated user; get, update, delete and toggle addressed to a task
\* of another user answer 404 and leave every row, that task among them, as
\* it was.
C26_UserIsolation ==
    [][ /\ (reply'.op = "list" /\ reply'.user = reply'.user_id) =>
              /\ reply'.status = 200
              /\ reply'.data = OwnedBy(db', reply'.user)
        /\ AddressesOthersTask =>
              /\ reply'.status = 404
              /\ reply'.data = {}
              /\ db' = db ]_vars

\* C26 witness: an update that a user sent for a stored task of another user
\* was answered 404, and the task is still as it was created.
C26_Witness ==
    /\ reply.op = "update"
    /\ reply.user = reply.user_id
    /\ reply.status = 404
    /\ \E t \in db : /\ t.id = reply.task_id
                     /\ t.user_id # reply.user
                     /\ t.title = "a"
                     /\ t.updated_at = "created_at"
    /\ OwnedBy(db, reply.user) # {}

\* the tasks of a listing
Listed(l) == { l[i] : i \in 1..Len(l) }

\* C27: the ids that TaskStorage.add assigned are 1, 2, 3, ... in call
\* order, so each is greater than every id assigned before and none is
\* assigned twice, also after its task was deleted; get_all lists exactly the
\* stored tasks, in ascending order of their ids.
C27_IdsCountUpListingAscends ==
    /\ \A i \in 1..Len(issued) : issued[i] = i
    /\ \A i, j \in 1..Len(issued) : i < j => issued[i] < issued[j]
    /\ \A k \in StoredIds(storage) :
           storage.tasks[k].id = k /\ \E i \in 1..Len(issued) : issued[i] = k
    /\ LET l == StorageGetAll(storage)
       IN /\ Listed(l) = { storage.tasks[k] : k \in StoredIds(storage) }
          /\ Len(l) = Cardinality(StoredIds(storage))
          /\ \A i, j \in 1..Len(l) : i < j => l[i].id < l[j].id
    /\ (ran.op = "view_tasks") => ran.listing = StorageGetAll(storage)

\* C27 witness: the task with id 2 was deleted, and the add after it assigned
\* id 3; get_all lists the tasks 1 and 3.
C27_Witness ==
    /\ ran.op = "add_task"
    /\ ran.raised = None
    /\ ran.id = 3
    /\ issued = << 1, 2, 3 >>
    /\ StoredIds(storage) = {1, 3}
    /\ Len(StorageGetAll(storage)) = 2

\* a description as it is passed in is empty, whitespace only or longer than
\* the limit
InvalidAsPassed(d) == DescLen(d) = 0 \/ d.len = 0 \/ DescLen(d) > MaxDescription

\* a description is empty or longer than the limit once the whitespace
\* around it is stripped
InvalidStripped(d) ==
    DescLen(Strip(d)) = 0 \/ DescLen(Strip(d)) > MaxDescription

\* the operation that ran in this step raised whenever it had to, and
\* changed nothing if it raised
RaisingLeavesStorage(Invalid(_)) ==
    /\ (ran'.op = "add_task" /\ Invalid(ran'.description)) =>
           /\ ran'.raised = "ValidationError"
           /\ storage'.tasks = storage.tasks
           /\ storage'.next_id = storage.next_id
           /\ issued' = issued
    /\ ( /\ ran'.op = "update_task"
         /\ StorageHas(storage, ran'.task_id)
         /\ Invalid(ran'.description) ) =>
           /\ ran'.raised = "ValidationError"
           /\ storage'.tasks[ran'.task_id] = storage.tasks[ran'.task_id]
    /\ ( /\ ran'.op \in {"mark_complete", "update_task", "delete_task"}
         /\ ~StorageHas(storage, ran'.task_id) ) =>
           /\ ran'.raised = "TaskNotFoundError"
           /\ storage' = storage
    /\ ran'.raised # None => (storage' = storage /\ issued' = issued)

\* C28 as stated: an operation that raises leaves the storage unchanged;
\* add_task with an empty, whitespace-only or longer-than-500-character
\* description raises ValidationError, adds no task and consumes no id;
\* update_task with such a description raises ValidationError and keeps the
\* task; mark_complete, update_task and delete_task on an id that is not
\* stored raise TaskNotFoundError and change no task.
C28_RaisingLeavesStorage == [][RaisingLeavesStorage(InvalidAsPassed)]_vars

\* C28 amended: the same, for a description that is empty or longer than 500
\* characters after its leading and trailing whitespace is stripped.
C28_RaisingLeavesStorageStripped == [][RaisingLeavesStorage(InvalidStripped)]_vars

\* C28 witness: update_task raised ValidationError for a task that is stored
\* and completed; the task kept its description and is still completed.
C28_Witness ==
    /\ ran.op = "update_task"
    /\ ran.raised = "ValidationError"
    /\ StorageHas(storage, ran.task_id)
    /\ storage.tasks[ran.task_id].completed
    /\ storage.tasks[ran.task_id].description = Description(0, 1, 0)
    /\ DescLen(ran.description) > MaxDescription

\* C29: clear_jwks_cache does not fence the fetches in flight. The cache
\* becomes non-empty only by the successful completion of a fetch; a
\* clear_jwks_cache call leaves every call in flight as it is; and a fetch
\* that completes successfully stores its document, also when
\* clear_jwks_cache was called while it was in flight.
C29_ClearDoesNotFence ==
    [][ /\ (cache = NoDoc /\ cache' # NoDoc) => \E c \in Calls : FetchSucceeds(c)
        /\ ( \/ (cache # NoDoc /\ cache' = NoDoc)
             \/ (hist.fence # "cleared" /\ hist'.fence = "cleared") ) =>
              /\ cache' = NoDoc
              /\ call' = call
        /\ \A c \in Calls :
              FetchSucceeds(c) =>
                  /\ cache' = call[c].resp
                  /\ hist.fence = "cleared" => hist'.fence = "stale" ]_vars

\* C29 witness: the cache holds the document of a fetch that was in flight
\* when clear_jwks_cache was called, no call was entered since, and the
\* coroutine of that fetch has not gone on yet.
C29_Witness ==
    /\ hist.fence = "stale"
    /\ cache # NoDoc
    /\ \E c \in Calls : call[c].pc = "closing" /\ call[c].jwks = cache

\* the call resolved a key for a token whose header has "kid": ""
EmptyKid(c) ==
    Reached(c, "resolve") /\ Obtained(c) /\ call[c].token.kid = ""

\* C30: a token whose key identifier is the empty string is resolved like a
\* token without key identifier: key_data is the first record of the key
\* set, also when no record has an empty identifier, and the call does not
\* end in KeyNotFound unless the key set is empty.
C30_EmptyKidResolvedAsNoKid ==
    \A c \in Calls :
        EmptyKid(c) =>
            /\ call[c].key_data = Resolve(call[c].jwks, None)
            /\ IF Len(call[c].jwks.keys) = 0
               THEN /\ call[c].key_data = NoKey
                    /\ Done(c) /\ call[c].result.kind = "KeyNotFound"
               ELSE /\ call[c].key_data = call[c].jwks.keys[1]
                    /\ Done(c) => call[c].result.kind # "KeyNotFound"

\* C30 witness: a token with "kid": "" was verified against the first record
\* of a key set none of whose records has an empty identifier, and the call
\* returned an identity.
C30_Witness ==
    \E c \in Calls :
        /\ EmptyKid(c)
        /\ Done(c)
        /\ Len(call[c].jwks.keys) >= 2
        /\ \A r \in Records(call[c].jwks) : r.kid # ""
        /\ call[c].key_data = call[c].jwks.keys[1]
        /\ call[c].result.kind = "Identity"

====
